---- MODULE Spec2Model ----
(***************************************************************************)
(* Model of the MCP sample tools: echo and add (server.py) and             *)
(* get_alerts, get_tokyo_weather, get_forecast with their fetcher          *)
(* make_nws_request and formatter format_alert (weather.py).               *)
(*                                                                         *)
(* JSON values are tagged records [t, v]:                                  *)
(*   null  : v = 0            num : v = the integer                        *)
(*   str   : v = sequence of characters (one TLA+ string per character)    *)
(*   list  : v = sequence of JSON values                                   *)
(*   dict  : v = sequence of [k, val] pairs in insertion order             *)
(* Japanese characters are written romanised, one token per character:     *)
(* "tou" "kyo" "chi" "hou" stand for the four characters of the first      *)
(* preferred name.                                                         *)
(***************************************************************************)
EXTENDS Integers, Sequences, FiniteSets, TLC

-----------------------------------------------------------------------------
(* JSON values and the Python operations the handlers apply to them *)

None == [t |-> "null", v |-> 0]
Num(n) == [t |-> "num", v |-> n]
Str(s) == [t |-> "str", v |-> s]
List(s) == [t |-> "list", v |-> s]
Dict(s) == [t |-> "dict", v |-> s]
KV(key, value) == [k |-> key, val |-> value]
EmptyStr == Str(<<>>)
EmptyList == List(<<>>)
EmptyDict == Dict(<<>>)

IsDict(x) == x.t = "dict"
IsList(x) == x.t = "list"
IsStr(x) == x.t = "str"

\* bool(x): None, 0, "", [] and {} are falsy
Truthy(x) ==
  CASE x.t = "null" -> FALSE
    [] x.t = "num" -> x.v # 0
    [] OTHER -> Len(x.v) > 0

\* key in d, for a dict d
HasKey(d, key) == \E i \in 1..Len(d.v) : d.v[i].k = key

\* d.get(key, default), for a dict d
DictGet(d, key, default) ==
  IF HasKey(d, key)
    THEN d.v[CHOOSE i \in 1..Len(d.v) : d.v[i].k = key].val
    ELSE default

\* s is a contiguous substring of t (sequences of characters)
IsSubstring(s, t) ==
  \E i \in 0..(Len(t) - Len(s)) : \A j \in 1..Len(s) : t[i + j] = s[j]

\* iter(x): the items a for loop visits, or TypeError
Iter(x) ==
  CASE x.t = "list" -> [exc |-> FALSE, items |-> x.v]
    [] x.t = "str" -> [exc |-> FALSE, items |-> [i \in 1..Len(x.v) |-> Str(<<x.v[i]>>)]]
    [] x.t = "dict" -> [exc |-> FALSE, items |-> [i \in 1..Len(x.v) |-> Str(<<x.v[i].k>>)]]
    [] OTHER -> [exc |-> TRUE, items |-> <<>>]

\* name in x, for a str name: substring of a str, element of a list, key of a
\* dict, TypeError otherwise
Contains(name, x) ==
  CASE x.t = "str" -> [exc |-> FALSE, v |-> IsSubstring(name, x.v)]
    [] x.t = "list" -> [exc |-> FALSE, v |-> \E i \in 1..Len(x.v) : x.v[i] = Str(name)]
    [] x.t = "dict" -> [exc |-> FALSE, v |-> \E i \in 1..Len(x.v) : <<x.v[i].k>> = name]
    [] OTHER -> [exc |-> TRUE, v |-> FALSE]

-----------------------------------------------------------------------------
(* get_tokyo_weather: the two traversals *)

preferred_names == << <<"tou", "kyo", "chi", "hou">>, <<"tou", "kyo">>, <<"T", "o", "k", "y", "o">> >>

\* any(name in area_name for name in preferred_names)
AnyPreferred(area_name) ==
  IF Contains(preferred_names[1], area_name).exc
    THEN [exc |-> TRUE, v |-> FALSE]
    ELSE [exc |-> FALSE,
          v |-> \E i \in 1..Len(preferred_names) : Contains(preferred_names[i], area_name).v]

\* obj.get("timeSeries", []) if isinstance(obj, dict) else []
TimeSeriesOf(obj) == IF IsDict(obj) THEN DictGet(obj, "timeSeries", EmptyList) ELSE EmptyList

\* ts.get("areas", []) if isinstance(ts, dict) else []
AreasOf(ts) == IF IsDict(ts) THEN DictGet(ts, "areas", EmptyList) ELSE EmptyList

\* isinstance(weathers_any, list) and weathers_any, for a dict area
HasWeathers(area) ==
  LET weathers_any == DictGet(area, "weathers", None)
  IN  IsList(weathers_any) /\ Truthy(weathers_any)

\* area_info.get("name", "") with area_info the "area" value if it is a dict
AreaName(area) ==
  LET area_info == IF IsDict(DictGet(area, "area", None))
                     THEN DictGet(area, "area", EmptyDict)
                     ELSE EmptyDict
  IN  DictGet(area_info, "name", EmptyStr)

Ok(tw) == [exc |-> FALSE, tw |-> tw]
Raised == [exc |-> TRUE, tw |-> None]

\* preferred pass, for area in areas (from position i, today_weather = tw)
RECURSIVE PrefAreas(_, _, _)
PrefAreas(areas, i, tw) ==
  IF i > Len(areas) THEN Ok(tw)
  ELSE LET area == areas[i] IN
    IF ~IsDict(area) THEN PrefAreas(areas, i + 1, tw)
    ELSE IF ~HasWeathers(area) THEN PrefAreas(areas, i + 1, tw)
    ELSE LET m == AnyPreferred(AreaName(area)) IN
      IF m.exc THEN Raised
      ELSE IF m.v THEN Ok(DictGet(area, "weathers", None).v[1])
      ELSE PrefAreas(areas, i + 1, tw)

\* preferred pass, for ts in time_series
RECURSIVE PrefTs(_, _, _)
PrefTs(time_series, j, tw) ==
  IF j > Len(time_series) THEN Ok(tw)
  ELSE LET it == Iter(AreasOf(time_series[j])) IN
    IF it.exc THEN Raised
    ELSE LET r == PrefAreas(it.items, 1, tw) IN
      IF r.exc THEN Raised
      ELSE IF Truthy(r.tw) THEN r
      ELSE PrefTs(time_series, j + 1, r.tw)

\* preferred pass, for obj in data
RECURSIVE PrefObjs(_, _, _)
PrefObjs(data, n, tw) ==
  IF n > Len(data) THEN Ok(tw)
  ELSE LET it == Iter(TimeSeriesOf(data[n])) IN
    IF it.exc THEN Raised
    ELSE LET r == PrefTs(it.items, 1, tw) IN
      IF r.exc THEN Raised
      ELSE IF Truthy(r.tw) THEN r
      ELSE PrefObjs(data, n + 1, r.tw)

PreferredPass(data) ==
  IF IsList(data) THEN PrefObjs(data.v, 1, None) ELSE Ok(None)

\* fallback pass, for area in areas: the first dict area ends the loop
RECURSIVE FallAreas(_, _, _)
FallAreas(areas, i, tw) ==
  IF i > Len(areas) THEN Ok(tw)
  ELSE LET area == areas[i] IN
    IF IsDict(area)
      THEN IF HasWeathers(area)
             THEN Ok(DictGet(area, "weathers", None).v[1])
             ELSE Ok(tw)
      ELSE FallAreas(areas, i + 1, tw)

RECURSIVE FallTs(_, _, _)
FallTs(time_series, j, tw) ==
  IF j > Len(time_series) THEN Ok(tw)
  ELSE LET it == Iter(AreasOf(time_series[j])) IN
    IF it.exc THEN Raised
    ELSE LET r == FallAreas(it.items, 1, tw) IN
      IF Truthy(r.tw) THEN r
      ELSE FallTs(time_series, j + 1, r.tw)

RECURSIVE FallObjs(_, _, _)
FallObjs(data, n, tw) ==
  IF n > Len(data) THEN Ok(tw)
  ELSE LET it == Iter(TimeSeriesOf(data[n])) IN
    IF it.exc THEN Raised
    ELSE LET r == FallTs(it.items, 1, tw) IN
      IF r.exc THEN Raised
      ELSE IF Truthy(r.tw) THEN r
      ELSE FallObjs(data, n + 1, r.tw)

FallbackPass(data, tw) ==
  IF ~Truthy(tw) /\ IsList(data) THEN FallObjs(data.v, 1, tw) ELSE Ok(tw)


-----------------------------------------------------------------------------
(* Results, messages and formatting *)

Text(s) == [kind |-> "text", text |-> s, num |-> 0]
Number(n) == [kind |-> "num", text |-> <<>>, num |-> n]
Err == [kind |-> "error", text |-> <<>>, num |-> 0]
NoResult == [kind |-> "none", text |-> <<>>, num |-> 0]

NWS_API_BASE == "https://api.weather.gov"
JMA_URL == Str(<<"https://www.jma.go.jp/bosai/forecast/data/forecast/130000.json">>)
MSG_ALERTS_UNABLE == Text(<<"Unable to fetch alerts or no alerts found.">>)
MSG_NO_ALERTS == Text(<<"No active alerts for this state.">>)
MSG_POINTS_UNABLE == Text(<<"Unable to fetch forecast data for this location.">>)
MSG_FORECAST_UNABLE == Text(<<"Unable to fetch detailed forecast.">>)
MSG_TOKYO_PREFIX == <<"toukyou no kyou no tenki: ">>
MSG_TOKYO_UNAVAILABLE == Text(<<"toukyou no tenki jouhou wo shutoku dekimasen deshita.">>)
SEPARATOR == <<"\n---\n">>

\* the text an f-string puts in place of {x} (floats are modelled as integers)
PyFormat(x) ==
  CASE x.t = "str" -> x.v
    [] x.t = "num" -> <<ToString(x.v)>>
    [] x.t = "null" -> <<"None">>
    [] x.t = "list" -> <<"[", ToString(Len(x.v)), " items]">>
    [] OTHER -> <<"{", ToString(Len(x.v)), " keys}">>

\* x[key] for a str key: the value of a dict that has the key, KeyError or
\* TypeError otherwise
Subscript(x, key) ==
  IF IsDict(x) /\ HasKey(x, key)
    THEN [exc |-> FALSE, v |-> DictGet(x, key, None)]
    ELSE [exc |-> TRUE, v |-> None]

\* x[k1][k2]
Subscript2(x, k1, k2) ==
  IF Subscript(x, k1).exc THEN Subscript(x, k1) ELSE Subscript(Subscript(x, k1).v, k2)

\* "key" in x, for a str key
InData(key, x) ==
  CASE x.t = "dict" -> [exc |-> FALSE, v |-> HasKey(x, key)]
    [] x.t = "list" -> [exc |-> FALSE, v |-> \E i \in 1..Len(x.v) : x.v[i] = Str(<<key>>)]
    [] x.t = "str" -> [exc |-> FALSE, v |-> IsSubstring(<<key>>, x.v)]
    [] OTHER -> [exc |-> TRUE, v |-> FALSE]

\* sep.join(blocks)
RECURSIVE Join(_)
Join(blocks) ==
  IF Len(blocks) = 0 THEN <<>>
  ELSE IF Len(blocks) = 1 THEN blocks[1]
  ELSE blocks[1] \o SEPARATOR \o Join(Tail(blocks))

format_alert(feature) ==
  LET p == Subscript(feature, "properties") IN
  IF p.exc \/ ~IsDict(p.v) THEN [exc |-> TRUE, text |-> <<>>]
  ELSE [exc |-> FALSE,
        text |-> <<"\nEvent: ">> \o PyFormat(DictGet(p.v, "event", Str(<<"Unknown">>)))
              \o <<"\nArea: ">> \o PyFormat(DictGet(p.v, "areaDesc", Str(<<"Unknown">>)))
              \o <<"\nSeverity: ">> \o PyFormat(DictGet(p.v, "severity", Str(<<"Unknown">>)))
              \o <<"\nDescription: ">>
              \o PyFormat(DictGet(p.v, "description", Str(<<"No description available">>)))
              \o <<"\nInstructions: ">>
              \o PyFormat(DictGet(p.v, "instruction", Str(<<"No specific instructions provided">>)))
              \o <<"\n">>]

\* [format_alert(feature) for feature in features]
RECURSIVE FormatAlerts(_)
FormatAlerts(features) ==
  IF Len(features) = 0 THEN [exc |-> FALSE, blocks |-> <<>>]
  ELSE LET a == format_alert(Head(features))
           rest == FormatAlerts(Tail(features))
       IN  IF a.exc \/ rest.exc THEN [exc |-> TRUE, blocks |-> <<>>]
           ELSE [exc |-> FALSE, blocks |-> <<a.text>> \o rest.blocks]

\* get_alerts after the fetch
AlertsBody(data) ==
  IF ~Truthy(data) THEN MSG_ALERTS_UNABLE
  ELSE IF InData("features", data).exc THEN Err
  ELSE IF ~InData("features", data).v THEN MSG_ALERTS_UNABLE
  ELSE LET f == Subscript(data, "features") IN
    IF f.exc THEN Err
    ELSE IF ~Truthy(f.v) THEN MSG_NO_ALERTS
    ELSE IF Iter(f.v).exc THEN Err
    ELSE LET a == FormatAlerts(Iter(f.v).items) IN
      IF a.exc THEN Err ELSE Text(Join(a.blocks))

ShowPeriods == 5

\* periods[:5]: a list or str can be sliced, anything else raises
SlicePeriods(p) ==
  IF Iter(p).exc \/ IsDict(p) THEN [exc |-> TRUE, items |-> <<>>]
  ELSE [exc |-> FALSE,
        items |-> SubSeq(Iter(p).items, 1,
                         IF Len(p.v) < ShowPeriods THEN Len(p.v) ELSE ShowPeriods)]

PeriodKeys == <<"name", "temperature", "temperatureUnit", "windSpeed", "windDirection", "detailedForecast">>

\* the f-string of one forecast period
FormatPeriod(period) ==
  IF \E i \in 1..Len(PeriodKeys) : Subscript(period, PeriodKeys[i]).exc
    THEN [exc |-> TRUE, text |-> <<>>]
    ELSE [exc |-> FALSE,
          text |-> <<"\n">> \o PyFormat(Subscript(period, "name").v) \o <<":\nTemperature: ">>
                \o PyFormat(Subscript(period, "temperature").v) \o <<"deg">>
                \o PyFormat(Subscript(period, "temperatureUnit").v) \o <<"\nWind: ">>
                \o PyFormat(Subscript(period, "windSpeed").v) \o <<" ">>
                \o PyFormat(Subscript(period, "windDirection").v) \o <<"\nForecast: ">>
                \o PyFormat(Subscript(period, "detailedForecast").v) \o <<"\n">>]

AlertsUrl(state) == Str(<<NWS_API_BASE, "/alerts/active/area/">> \o PyFormat(state))
PointsUrl(latitude, longitude) ==
  Str(<<NWS_API_BASE, "/points/">> \o PyFormat(latitude) \o <<",">> \o PyFormat(longitude))

\* a fetcher that forgets raise_for_status()
IsSuccess_Any(status) == TRUE

\* response.raise_for_status() passes
IsSuccess(status) == status \in 200..299

\* a client created without async with: nothing closes it
Release_Leak(open, c) == open

\* async with exit: the client of this fetch is closed
Release(open, c) == open \ {c}

\* a forecasts list that lives at module level and is never emptied
NewForecasts_Stale(old) == old

\* forecasts = []
NewForecasts(old) == <<>>

\* a handler that goes on without looking at the points result
PointsUnavailable_Never(points) == FALSE

\* if not points_data
PointsUnavailable(points) == ~Truthy(points)

\* if not forecast_data
ForecastUnavailable(forecast) == ~Truthy(forecast)

-----------------------------------------------------------------------------
(* The external responses and arguments the tools are run against *)

MaxItems == 2
MaxFeatures == 2
MaxPeriods == 2

\* what one GET can produce: a transport error, a timeout, or an HTTP response
\* with a status and a body that parses to json or does not parse
RespTransport == [kind |-> "transport_error", status |-> 0, parses |-> FALSE, json |-> None]
RespTimeout == [kind |-> "timeout", status |-> 0, parses |-> FALSE, json |-> None]
Http(status, parses, json) == [kind |-> "http", status |-> status, parses |-> parses, json |-> json]
OkResp(json) == Http(200, TRUE, json)
Failures == {RespTransport, RespTimeout, Http(404, TRUE, EmptyDict), Http(500, FALSE, None), Http(200, FALSE, None)}

Hare == Str(<<"ha", "re">>)
Ame == Str(<<"a", "me">>)
Kumori == Str(<<"ku", "mo", "ri">>)
Yuki == Str(<<"yu", "ki">>)
NameTokyoChihou == Str(<<"tou", "kyo", "chi", "hou">>)
NameTokyoTo == Str(<<"tou", "kyo", "to">>)
NameOsaka == Str(<<"oo", "saka">>)

Area(name, weathers) == Dict(<<KV("area", Dict(<<KV("code", Str(<<"130010">>)), KV("name", name)>>)), KV("weathers", weathers)>>)
AreaTokyo == Area(NameTokyoChihou, List(<<Hare, Ame>>))
AreaOsaka == Area(NameOsaka, List(<<Kumori>>))
AreaUnnamed == Dict(<<KV("weathers", List(<<Ame>>))>>)
AreaEmptyWeathers == Area(NameTokyoChihou, EmptyList)
AreaNoWeathers == Dict(<<KV("area", Dict(<<KV("name", NameOsaka)>>)), KV("winds", List(<<Yuki>>))>>)
AreaNumberName == Area(Num(13), List(<<Yuki>>))
AreaInfoNotDict == Dict(<<KV("area", NameTokyoChihou), KV("weathers", List(<<Ame>>))>>)
AreaBlankFirst == Area(NameTokyoTo, List(<<EmptyStr, Hare>>))
AreaNotDict == Str(<<"n", "a">>)
AreaTokens == {AreaTokyo, AreaOsaka, AreaUnnamed, AreaEmptyWeathers, AreaNoWeathers,
               AreaNumberName, AreaInfoNotDict, AreaBlankFirst, AreaNotDict}

TsOf(areas) == Dict(<<KV("timeDefines", EmptyList), KV("areas", List(areas))>>)
TsNotDict == Num(7)
TsNoAreas == Dict(<<KV("timeDefines", EmptyList)>>)
TsAreasNull == Dict(<<KV("areas", None)>>)
TsTokens == {TsNotDict, TsNoAreas, TsAreasNull}

ReportOf(time_series) == Dict(<<KV("publishingOffice", Str(<<"JMA">>)), KV("timeSeries", List(time_series))>>)
ReportNotDict == Str(<<"r">>)
ReportNoTimeSeries == Dict(<<KV("publishingOffice", Str(<<"JMA">>))>>)
ReportTimeSeriesNull == Dict(<<KV("timeSeries", None)>>)
ReportTokens == {ReportNotDict, ReportNoTimeSeries, ReportTimeSeriesNull}

\* a document is written node by node: each node is a report, a time-series
\* entry or an area, placed in a new report, in a new time-series entry of the
\* last report, or at the end of the last areas list
Items ==
  [lvl : {"report"}, at : {"report"}, tok : ReportTokens]
    \cup [lvl : {"ts"}, at : {"report", "ts"}, tok : TsTokens]
    \cup [lvl : {"area"}, at : {"report", "ts", "area"}, tok : AreaTokens]

\* d with the value of its last key replaced
SetLast(d, value) == Dict([d.v EXCEPT ![Len(d.v)] = KV(d.v[Len(d.v)].k, value)])
LastVal(d) == d.v[Len(d.v)].val
Growable(d, key) == IsDict(d) /\ Len(d.v) > 0 /\ d.v[Len(d.v)].k = key /\ IsList(LastVal(d))

AddTs(doc, ts) ==
  IF Len(doc) > 0 /\ Growable(doc[Len(doc)], "timeSeries")
    THEN [doc EXCEPT ![Len(doc)] = SetLast(@, List(Append(LastVal(@).v, ts)))]
    ELSE Append(doc, ReportOf(<<ts>>))

AddArea(doc, area) ==
  IF Len(doc) > 0 /\ Growable(doc[Len(doc)], "timeSeries")
     /\ Len(LastVal(doc[Len(doc)]).v) > 0
     /\ Growable(LastVal(doc[Len(doc)]).v[Len(LastVal(doc[Len(doc)]).v)], "areas")
    THEN LET rep == doc[Len(doc)]
             tss == LastVal(rep).v
             ts == tss[Len(tss)]
         IN  [doc EXCEPT ![Len(doc)] =
                SetLast(rep, List([tss EXCEPT ![Len(tss)] =
                                     SetLast(ts, List(Append(LastVal(ts).v, area)))]))]
    ELSE AddTs(doc, TsOf(<<area>>))

AddItem(doc, it) ==
  CASE it.lvl = "report" -> Append(doc, it.tok)
    [] it.lvl = "ts" -> IF it.at = "ts" THEN AddTs(doc, it.tok)
                        ELSE Append(doc, ReportOf(<<it.tok>>))
    [] OTHER -> IF it.at = "area" THEN AddArea(doc, it.tok)
                ELSE IF it.at = "ts" THEN AddTs(doc, TsOf(<<it.tok>>))
                ELSE Append(doc, ReportOf(<<TsOf(<<it.tok>>)>>))

RECURSIVE Build(_, _)
Build(items, n) == IF n = 0 THEN <<>> ELSE AddItem(Build(items, n - 1), items[n])

\* the values response.json() can give get_tokyo_weather
TokyoDocs ==
  {List(Build(s, Len(s))) : s \in UNION {[1..n -> Items] : n \in 0..MaxItems}}
    \cup {EmptyDict, Dict(<<KV("timeSeries", List(<<TsOf(<<AreaTokyo>>)>>))>>), None}
TokyoResponses == Failures \cup {OkResp(d) : d \in TokyoDocs}

SeqsUpTo(S, n) == UNION {[1..k -> S] : k \in 0..n}

Props(pairs) == Dict(<<KV("id", Str(<<"urn:1">>)), KV("properties", Dict(pairs))>>)
FeatureFull ==
  Props(<<KV("event", Str(<<"Flood Warning">>)), KV("areaDesc", Str(<<"Kern">>)),
          KV("severity", Str(<<"Severe">>)), KV("description", Str(<<"River rising">>)),
          KV("instruction", Str(<<"Move to higher ground">>))>>)
FeaturePartial == Props(<<KV("event", Str(<<"Heat Advisory">>)), KV("instruction", None)>>)
FeatureNoProperties == Dict(<<KV("id", Str(<<"urn:2">>))>>)
Features == {FeatureFull, FeaturePartial, FeatureNoProperties}

\* the values make_nws_request can give get_alerts on a successful fetch
AlertDocs ==
  {Dict(<<KV("type", Str(<<"FeatureCollection">>)), KV("features", List(f))>>) :
      f \in SeqsUpTo(Features, MaxFeatures)}
    \cup {EmptyDict, None, Dict(<<KV("title", Str(<<"x">>))>>),
          Dict(<<KV("features", None)>>)}
AlertResponses == Failures \cup {OkResp(d) : d \in AlertDocs}
States == {Str(<<"C", "A">>), Str(<<"Z", "Z">>)}

ForecastUrlA == Str(<<"https://api.weather.gov/gridpoints/LOX/154,44/forecast">>)
ForecastUrlB == Str(<<"https://api.weather.gov/gridpoints/TOP/31,80/forecast">>)
PointsDocs ==
  {Dict(<<KV("properties", Dict(<<KV("forecast", u)>>))>>) : u \in {ForecastUrlA, ForecastUrlB}}
    \cup {EmptyDict, Dict(<<KV("id", Str(<<"p">>))>>),
          Dict(<<KV("properties", Dict(<<KV("gridId", Str(<<"LOX">>))>>))>>),
          Dict(<<KV("properties", None)>>)}
PointsResponses == Failures \cup {OkResp(d) : d \in PointsDocs}

PeriodFull ==
  Dict(<<KV("name", Str(<<"Tonight">>)), KV("temperature", Num(61)),
         KV("temperatureUnit", Str(<<"F">>)), KV("windSpeed", Str(<<"5 mph">>)),
         KV("windDirection", Str(<<"SW">>)), KV("detailedForecast", Str(<<"Clear">>))>>)
PeriodNoWind ==
  Dict(<<KV("name", Str(<<"Monday">>)), KV("temperature", Num(75)),
         KV("temperatureUnit", Str(<<"F">>)), KV("detailedForecast", Str(<<"Sunny">>))>>)
PeriodNotDict == Str(<<"p">>)
Periods == {PeriodFull, PeriodNoWind, PeriodNotDict}
ForecastOf(periods) == Dict(<<KV("properties", Dict(<<KV("units", Str(<<"us">>)), KV("periods", periods)>>))>>)
ForecastDocs ==
  {ForecastOf(List(p)) : p \in SeqsUpTo(Periods, MaxPeriods)}
    \cup {ForecastOf(List([i \in 1..(ShowPeriods + 1) |-> PeriodFull])),
          ForecastOf(None), EmptyDict, Dict(<<KV("properties", Dict(<<KV("units", Str(<<"us">>))>>))>>),
          Dict(<<KV("status", Num(0))>>)}
ForecastResponses == Failures \cup {OkResp(d) : d \in ForecastDocs}
Latitudes == {Num(34), Num(39)}
Longitudes == {Num(-118)}

Texts == {<<>>, <<"hello mcp">>}
Numbers == {-1, 2}

-----------------------------------------------------------------------------
(* State *)

VARIABLES
  pc,             \* position of the running handler; "idle" before the first call
  tool,           \* name of the tool being run
  args,           \* its arguments
  env,            \* the responses the external services give to its GETs, in order
  url,            \* argument of the fetch in progress
  cont,           \* where make_nws_request returns to
  client,         \* the httpx.AsyncClient of the fetch in progress (0: none)
  conns,          \* the clients that are open
  opened,         \* number of clients created by this invocation
  gets,           \* the GETs issued by this invocation: [url, client]
  response,       \* the response object of the fetch in progress
  ret,            \* return value of make_nws_request
  data,           \* get_alerts / get_tokyo_weather: data
  today_weather,  \* get_tokyo_weather: today_weather
  points_data,    \* get_forecast: points_data
  forecast_data,  \* get_forecast: forecast_data
  periods,        \* get_forecast: the periods the loop has still to visit
  forecasts,      \* get_forecast: forecasts (keeps its last value until rebound)
  result,         \* what the invocation returned to the caller
  ref             \* observer: one earlier completed invocation, <<>> if none

vars == <<pc, tool, args, env, url, cont, client, conns, opened, gets, response, ret,
          data, today_weather, points_data, forecast_data, periods, forecasts, result, ref>>

NoResponse == Http(0, FALSE, None)

Init ==
  /\ pc = "idle" /\ tool = "" /\ args = <<>> /\ env = <<>>
  /\ url = None /\ cont = "" /\ client = 0 /\ conns = {} /\ opened = 0 /\ gets = <<>>
  /\ response = NoResponse /\ ret = None
  /\ data = None /\ today_weather = None /\ points_data = None /\ forecast_data = None
  /\ periods = <<>> /\ forecasts = <<>> /\ result = NoResult /\ ref = <<>>

Ready == pc = "idle"

\* a call of tool t with arguments a against the responses e begins at label l
Begin(t, a, e, l) ==
  /\ Ready
  /\ tool' = t /\ args' = a /\ env' = e /\ pc' = l
  /\ client' = 0 /\ opened' = 0 /\ gets' = <<>>
  /\ response' = NoResponse /\ ret' = None
  /\ data' = None /\ today_weather' = None /\ points_data' = None /\ forecast_data' = None
  /\ periods' = <<>> /\ result' = NoResult
  /\ UNCHANGED <<conns, forecasts>>

Return(r) == result' = r /\ pc' = "done"

\* the caller has the result (client.py: await session.call_tool(...) completes);
\* the frame of the call is gone
Respond ==
  /\ pc = "done"
  /\ pc' = "idle" /\ tool' = "" /\ args' = <<>> /\ env' = <<>>
  /\ url' = None /\ cont' = "" /\ client' = 0 /\ opened' = 0 /\ gets' = <<>>
  /\ response' = NoResponse /\ ret' = None
  /\ data' = None /\ today_weather' = None /\ points_data' = None /\ forecast_data' = None
  /\ periods' = <<>> /\ result' = NoResult
  /\ UNCHANGED <<conns, forecasts, ref>>

-----------------------------------------------------------------------------
(* server.py *)

StartEcho(text) == Begin("echo", <<Str(text)>>, <<>>, "echo") /\ url' = None /\ cont' = ""
StartAdd(a, b) == Begin("add", <<Num(a), Num(b)>>, <<>>, "add") /\ url' = None /\ cont' = ""

InvokeEcho == /\ Ready /\ \E text \in Texts : StartEcho(text)
              /\ UNCHANGED ref

InvokeAdd == /\ Ready /\ \E a \in Numbers, b \in Numbers : StartAdd(a, b)
             /\ UNCHANGED ref

Echo ==
  /\ pc = "echo"
  /\ Return(Text(args[1].v))
  /\ UNCHANGED <<tool, args, env, url, cont, client, conns, opened, gets, response, ret,
                 data, today_weather, points_data, forecast_data, periods, forecasts, ref>>

Add ==
  /\ pc = "add"
  /\ Return(Number(args[1].v + args[2].v))
  /\ UNCHANGED <<tool, args, env, url, cont, client, conns, opened, gets, response, ret,
                 data, today_weather, points_data, forecast_data, periods, forecasts, ref>>

-----------------------------------------------------------------------------
(* weather.py: make_nws_request *)

FetchFrame == <<tool, args, env, url, cont, data, today_weather, points_data, forecast_data,
                periods, forecasts, result, ref>>

\* async with httpx.AsyncClient() as client
NwsOpen ==
  /\ pc = "nws_open"
  /\ opened' = opened + 1 /\ client' = opened + 1 /\ conns' = conns \cup {opened + 1}
  /\ pc' = "nws_get"
  /\ UNCHANGED <<gets, response, ret>> /\ UNCHANGED FetchFrame

\* response = await client.get(url, ...)
NwsGet ==
  /\ pc = "nws_get"
  /\ gets' = Append(gets, [url |-> url, client |-> client])
  /\ LET r == env[Len(gets) + 1] IN
       IF r.kind = "http"
         THEN response' = r /\ pc' = "nws_status"
         ELSE response' = response /\ pc' = "nws_except"
  /\ UNCHANGED <<client, conns, opened, ret>> /\ UNCHANGED FetchFrame

\* response.raise_for_status()
NwsStatus ==
  /\ pc = "nws_status"
  /\ pc' = IF IsSuccess(response.status) THEN "nws_json" ELSE "nws_except"
  /\ UNCHANGED <<client, conns, opened, gets, response, ret>> /\ UNCHANGED FetchFrame

\* return response.json()
NwsJson ==
  /\ pc = "nws_json"
  /\ IF response.parses
       THEN ret' = response.json /\ pc' = "nws_close"
       ELSE ret' = ret /\ pc' = "nws_except"
  /\ UNCHANGED <<client, conns, opened, gets, response>> /\ UNCHANGED FetchFrame

\* except Exception: return None
NwsExcept ==
  /\ pc = "nws_except"
  /\ ret' = None /\ pc' = "nws_close"
  /\ UNCHANGED <<client, conns, opened, gets, response>> /\ UNCHANGED FetchFrame

\* leaving the async with block, back in the handler
NwsClose ==
  /\ pc = "nws_close"
  /\ conns' = Release(conns, client) /\ client' = 0
  /\ pc' = cont
  /\ UNCHANGED <<opened, gets, response, ret>> /\ UNCHANGED FetchFrame

-----------------------------------------------------------------------------
(* weather.py: get_alerts *)

StartAlerts(state, r) ==
  Begin("get_alerts", <<state>>, <<r>>, "nws_open") /\ url' = AlertsUrl(state) /\ cont' = "alerts"

InvokeAlerts ==
  /\ Ready /\ \E state \in States, r \in AlertResponses : StartAlerts(state, r)
  /\ UNCHANGED ref

Alerts ==
  /\ pc = "alerts"
  /\ data' = ret
  /\ Return(AlertsBody(ret))
  /\ UNCHANGED <<tool, args, env, url, cont, client, conns, opened, gets, response, ret,
                 today_weather, points_data, forecast_data, periods, forecasts, ref>>

-----------------------------------------------------------------------------
(* weather.py: get_tokyo_weather *)

StartTokyo(r) ==
  Begin("get_tokyo_weather", <<>>, <<r>>, "tk_open") /\ url' = JMA_URL /\ cont' = ""

InvokeTokyo == /\ Ready /\ \E r \in TokyoResponses : StartTokyo(r)
               /\ UNCHANGED ref

TkOpen ==
  /\ pc = "tk_open"
  /\ opened' = opened + 1 /\ client' = opened + 1 /\ conns' = conns \cup {opened + 1}
  /\ pc' = "tk_get"
  /\ UNCHANGED <<gets, response, ret>> /\ UNCHANGED FetchFrame

TkGet ==
  /\ pc = "tk_get"
  /\ gets' = Append(gets, [url |-> url, client |-> client])
  /\ LET r == env[Len(gets) + 1] IN
       IF r.kind = "http"
         THEN response' = r /\ pc' = "tk_status"
         ELSE response' = response /\ pc' = "tk_unwind"
  /\ UNCHANGED <<client, conns, opened, ret>> /\ UNCHANGED FetchFrame

TkStatus ==
  /\ pc = "tk_status"
  /\ pc' = IF IsSuccess(response.status) THEN "tk_json" ELSE "tk_unwind"
  /\ UNCHANGED <<client, conns, opened, gets, response, ret>> /\ UNCHANGED FetchFrame

\* data = response.json()
TkJson ==
  /\ pc = "tk_json"
  /\ IF response.parses
       THEN data' = response.json /\ pc' = "tk_close"
       ELSE data' = data /\ pc' = "tk_unwind"
  /\ UNCHANGED <<tool, args, env, url, cont, client, conns, opened, gets, response, ret,
                 today_weather, points_data, forecast_data, periods, forecasts, result, ref>>

\* the async with block is left normally
TkClose ==
  /\ pc = "tk_close"
  /\ conns' = Release(conns, client) /\ client' = 0
  /\ pc' = "tk_preferred"
  /\ UNCHANGED <<opened, gets, response, ret>> /\ UNCHANGED FetchFrame

\* the async with block is left by an exception on its way to the except clause
TkUnwind ==
  /\ pc = "tk_unwind"
  /\ conns' = Release(conns, client) /\ client' = 0
  /\ pc' = "tk_except"
  /\ UNCHANGED <<opened, gets, response, ret>> /\ UNCHANGED FetchFrame

TkPreferred ==
  /\ pc = "tk_preferred"
  /\ LET r == PreferredPass(data) IN
       IF r.exc THEN today_weather' = today_weather /\ pc' = "tk_except"
       ELSE today_weather' = r.tw /\ pc' = "tk_fallback"
  /\ UNCHANGED <<tool, args, env, url, cont, client, conns, opened, gets, response, ret,
                 data, points_data, forecast_data, periods, forecasts, result, ref>>

TkFallback ==
  /\ pc = "tk_fallback"
  /\ LET r == FallbackPass(data, today_weather) IN
       IF r.exc THEN today_weather' = today_weather /\ pc' = "tk_except"
       ELSE today_weather' = r.tw /\ pc' = "tk_return"
  /\ UNCHANGED <<tool, args, env, url, cont, client, conns, opened, gets, response, ret,
                 data, points_data, forecast_data, periods, forecasts, result, ref>>

\* a return that does not test today_weather
TokyoMessage_NoCheck(tw) == Text(MSG_TOKYO_PREFIX \o PyFormat(tw))

\* if today_weather: return f"...: {today_weather}"; return "..."
TokyoMessage(tw) ==
  IF Truthy(tw) THEN Text(MSG_TOKYO_PREFIX \o PyFormat(tw)) ELSE MSG_TOKYO_UNAVAILABLE

TkReturn ==
  /\ pc = "tk_return"
  /\ Return(TokyoMessage(today_weather))
  /\ UNCHANGED <<tool, args, env, url, cont, client, conns, opened, gets, response, ret,
                 data, today_weather, points_data, forecast_data, periods, forecasts, ref>>

\* except Exception
TkExcept ==
  /\ pc = "tk_except"
  /\ Return(MSG_TOKYO_UNAVAILABLE)
  /\ UNCHANGED <<tool, args, env, url, cont, client, conns, opened, gets, response, ret,
                 data, today_weather, points_data, forecast_data, periods, forecasts, ref>>

-----------------------------------------------------------------------------
(* weather.py: get_forecast *)

StartForecast(latitude, longitude, r1, r2) ==
  /\ Begin("get_forecast", <<latitude, longitude>>, <<r1, r2>>, "nws_open")
  /\ url' = PointsUrl(latitude, longitude) /\ cont' = "fc_points"

InvokeForecast ==
  /\ Ready
  /\ \E latitude \in Latitudes, longitude \in Longitudes,
        r1 \in PointsResponses, r2 \in ForecastResponses :
          StartForecast(latitude, longitude, r1, r2)
  /\ UNCHANGED ref

\* points_data = ...; forecast_url = points_data["properties"]["forecast"]
FcPoints ==
  /\ pc = "fc_points"
  /\ points_data' = ret
  /\ LET f == Subscript2(ret, "properties", "forecast") IN
       IF PointsUnavailable(ret)
         THEN Return(MSG_POINTS_UNABLE) /\ UNCHANGED <<url, cont>>
       ELSE IF f.exc
         THEN Return(Err) /\ UNCHANGED <<url, cont>>
       ELSE url' = f.v /\ cont' = "fc_forecast" /\ pc' = "nws_open" /\ result' = result
  /\ UNCHANGED <<tool, args, env, client, conns, opened, gets, response, ret,
                 data, today_weather, forecast_data, periods, forecasts, ref>>

\* forecast_data = ...; periods = ...; forecasts = []
FcForecast ==
  /\ pc = "fc_forecast"
  /\ forecast_data' = ret
  /\ LET p == Subscript2(ret, "properties", "periods") IN
       IF ForecastUnavailable(ret)
         THEN Return(MSG_FORECAST_UNABLE) /\ UNCHANGED <<periods, forecasts>>
       ELSE IF p.exc
         THEN Return(Err) /\ UNCHANGED <<periods, forecasts>>
       ELSE IF SlicePeriods(p.v).exc
         THEN Return(Err) /\ forecasts' = NewForecasts(forecasts) /\ UNCHANGED periods
       ELSE /\ forecasts' = NewForecasts(forecasts)
            /\ periods' = SlicePeriods(p.v).items
            /\ pc' = "fc_loop" /\ result' = result
  /\ UNCHANGED <<tool, args, env, url, cont, client, conns, opened, gets, response, ret,
                 data, today_weather, points_data, ref>>

\* one iteration of for period in periods[:5]
FcLoop ==
  /\ pc = "fc_loop" /\ periods # <<>>
  /\ LET f == FormatPeriod(Head(periods)) IN
       IF f.exc
         THEN Return(Err) /\ UNCHANGED <<periods, forecasts>>
         ELSE /\ forecasts' = Append(forecasts, f.text)
              /\ periods' = Tail(periods)
              /\ UNCHANGED <<pc, result>>
  /\ UNCHANGED <<tool, args, env, url, cont, client, conns, opened, gets, response, ret,
                 data, today_weather, points_data, forecast_data, ref>>

FcReturn ==
  /\ pc = "fc_loop" /\ periods = <<>>
  /\ Return(Text(Join(forecasts)))
  /\ UNCHANGED <<tool, args, env, url, cont, client, conns, opened, gets, response, ret,
                 data, today_weather, points_data, forecast_data, periods, forecasts, ref>>

-----------------------------------------------------------------------------
(* Specifications *)

Steps ==
  \/ Echo \/ Add
  \/ NwsOpen \/ NwsGet \/ NwsStatus \/ NwsJson \/ NwsExcept \/ NwsClose
  \/ Alerts
  \/ TkOpen \/ TkGet \/ TkStatus \/ TkJson \/ TkClose \/ TkUnwind
  \/ TkPreferred \/ TkFallback \/ TkReturn \/ TkExcept
  \/ FcPoints \/ FcForecast \/ FcLoop \/ FcReturn

Next ==
  \/ InvokeEcho \/ InvokeAdd \/ InvokeAlerts \/ InvokeTokyo \/ InvokeForecast
  \/ Steps \/ Respond

Spec == Init /\ [][Next]_vars

\* the handler from the parsed document to its result
TokyoResultOf(doc) ==
  LET p == PreferredPass(doc) IN
  IF p.exc THEN MSG_TOKYO_UNAVAILABLE
  ELSE LET f == FallbackPass(doc, p.tw) IN
    IF f.exc THEN MSG_TOKYO_UNAVAILABLE ELSE TokyoMessage(f.tw)

-----------------------------------------------------------------------------
(* Idempotence: a second specification in which one completed invocation is  *)
(* remembered and run again, with echo and add calls in between.             *)

Remember ==
  /\ pc = "done" /\ ref = <<>>
  /\ ref' = <<[tool |-> tool, args |-> args, env |-> env, result |-> result]>>
  /\ UNCHANGED <<pc, tool, args, env, url, cont, client, conns, opened, gets, response, ret,
                 data, today_weather, points_data, forecast_data, periods, forecasts, result>>

Replay ==
  /\ Ready /\ ref # <<>>
  /\ LET r == ref[1] IN
       CASE r.tool = "echo" -> StartEcho(r.args[1].v)
         [] r.tool = "add" -> StartAdd(r.args[1].v, r.args[2].v)
         [] r.tool = "get_alerts" -> StartAlerts(r.args[1], r.env[1])
         [] r.tool = "get_tokyo_weather" -> StartTokyo(r.env[1])
         [] OTHER -> StartForecast(r.args[1], r.args[2], r.env[1], r.env[2])
  /\ UNCHANGED ref

InvokeFirst == ref = <<>> /\ (InvokeAlerts \/ InvokeTokyo \/ InvokeForecast)

NextIdem ==
  \/ InvokeFirst \/ InvokeEcho \/ InvokeAdd
  \/ Steps \/ Respond
  \/ Remember \/ Replay

SpecIdem == Init /\ [][NextIdem]_vars

-----------------------------------------------------------------------------
(* What the claims speak of *)

RECURSIVE Concat(_)
Concat(seqs) == IF Len(seqs) = 0 THEN <<>> ELSE Head(seqs) \o Concat(Tail(seqs))

ListItems(x) == IF IsList(x) THEN x.v ELSE <<>>
ChildList(node, key) ==
  IF IsDict(node) /\ HasKey(node, key) THEN ListItems(DictGet(node, key, None)) ELSE <<>>

\* every time-series entry and every area of a document, in document order
DocTs(doc) == Concat([n \in 1..Len(ListItems(doc)) |-> ChildList(ListItems(doc)[n], "timeSeries")])
DocAreas(doc) == Concat([j \in 1..Len(DocTs(doc)) |-> ChildList(DocTs(doc)[j], "areas")])

WeathersOf(area) == ChildList(area, "weathers")
NameOf(area) ==
  IF IsDict(area) /\ HasKey(area, "area") /\ IsDict(DictGet(area, "area", None))
     /\ HasKey(DictGet(area, "area", None), "name")
    THEN DictGet(DictGet(area, "area", None), "name", None)
    ELSE EmptyStr
PreferredNamed(area) ==
  IsStr(NameOf(area)) /\ \E i \in 1..Len(preferred_names) : IsSubstring(preferred_names[i], NameOf(area).v)
PreferredWithWeathers(area) == PreferredNamed(area) /\ WeathersOf(area) # <<>>

First(seq, P(_)) == seq[CHOOSE i \in 1..Len(seq) : P(seq[i]) /\ \A j \in 1..(i - 1) : ~P(seq[j])]
Some(seq, P(_)) == \E i \in 1..Len(seq) : P(seq[i])
WithWeathers(area) == WeathersOf(area) # <<>>

Success(weather) == Text(MSG_TOKYO_PREFIX \o PyFormat(weather))
FetchValue(r) == IF r.kind = "http" /\ r.status \in 200..299 /\ r.parses THEN r.json ELSE None
Fetched(r) == r.kind = "http" /\ r.status \in 200..299 /\ r.parses

TokyoDone == pc = "done" /\ tool = "get_tokyo_weather"
TokyoFetched == TokyoDone /\ Fetched(env[1])
TokyoDoc == env[1].json

\* a document without its nodes of unexpected type
DropKey(d, key) == Dict(SelectSeq(d.v, LAMBDA p : p.k # key))
IsDictNode(x) == IsDict(x)
CleanArea(area) ==
  LET a1 == IF HasKey(area, "area") /\ ~IsDict(DictGet(area, "area", None))
              THEN DropKey(area, "area") ELSE area
  IN  IF HasKey(a1, "area") /\ HasKey(DictGet(a1, "area", None), "name")
         /\ ~IsStr(DictGet(DictGet(a1, "area", None), "name", None))
        THEN Dict([i \in 1..Len(a1.v) |->
                     IF a1.v[i].k = "area" THEN KV("area", DropKey(a1.v[i].val, "name")) ELSE a1.v[i]])
        ELSE a1
CleanTs(ts) ==
  IF HasKey(ts, "areas") /\ ~IsList(DictGet(ts, "areas", None)) THEN DropKey(ts, "areas")
  ELSE Dict([i \in 1..Len(ts.v) |->
               IF ts.v[i].k = "areas"
                 THEN KV("areas", List([k \in 1..Len(SelectSeq(ts.v[i].val.v, IsDictNode)) |->
                                          CleanArea(SelectSeq(ts.v[i].val.v, IsDictNode)[k])]))
                 ELSE ts.v[i]])
CleanReport(rep) ==
  IF HasKey(rep, "timeSeries") /\ ~IsList(DictGet(rep, "timeSeries", None)) THEN DropKey(rep, "timeSeries")
  ELSE Dict([i \in 1..Len(rep.v) |->
               IF rep.v[i].k = "timeSeries"
                 THEN KV("timeSeries", List([k \in 1..Len(SelectSeq(rep.v[i].val.v, IsDictNode)) |->
                                               CleanTs(SelectSeq(rep.v[i].val.v, IsDictNode)[k])]))
                 ELSE rep.v[i]])
Sanitize(doc) ==
  List([n \in 1..Len(SelectSeq(doc.v, IsDictNode)) |-> CleanReport(SelectSeq(doc.v, IsDictNode)[n])])

-----------------------------------------------------------------------------
(* Claims *)

\* every node of the document has the type the traversal expects
ListOfReports(doc) == IsList(doc) /\ Sanitize(doc) = doc

\* C1: when the fetched document is a list of reports in which no area has a
\* preferred name and some area anywhere has a non-empty weathers list, the
\* result is the success message with weathers[0] of the first such area in
\* document order, also when areas without weathers come before it in the same
\* areas list.
C1_FallbackTakesFirstArea ==
  (TokyoFetched /\ ListOfReports(TokyoDoc)
     /\ ~Some(DocAreas(TokyoDoc), PreferredNamed) /\ Some(DocAreas(TokyoDoc), WithWeathers))
    => result = Success(WeathersOf(First(DocAreas(TokyoDoc), WithWeathers))[1])

\* C2: when the fetched document has an area with a preferred name and a
\* non-empty weathers list, the result carries weathers[0] of the first such
\* area in document order, whatever comes before it.
C2_PreferredNameWins ==
  (TokyoFetched /\ Some(DocAreas(TokyoDoc), PreferredWithWeathers))
    => result = Success(WeathersOf(First(DocAreas(TokyoDoc), PreferredWithWeathers))[1])

\* C3: the result for a fetched list document equals the result for the same
\* document with every node of unexpected type removed.
C3_MalformedNodesSkipped ==
  (TokyoFetched /\ IsList(TokyoDoc)) => result = TokyoResultOf(Sanitize(TokyoDoc))

\* C4: get_alerts and get_forecast return a string, never an error, whatever
\* documents their successful fetches gave them.
C4_HandlersAbsorbShapeErrors ==
  (pc = "done" /\ tool \in {"get_alerts", "get_forecast"}
     /\ \A i \in 1..Len(gets) : Fetched(env[i]))
    => result.kind = "text"

\* C5: get_forecast issues its second GET only after the points fetch returned
\* data, and to the forecast URL of that data; a points fetch without data ends
\* the call after one GET with the stage-one message; a forecast fetch without
\* data ends it with the stage-two message.
C5_ForecastStagesOrdered ==
  tool = "get_forecast" =>
    /\ Len(gets) <= 2
    /\ Len(gets) >= 1 => gets[1].url = PointsUrl(args[1], args[2])
    /\ Len(gets) = 2 =>
         /\ FetchValue(env[1]) # None /\ points_data = FetchValue(env[1])
         /\ gets[2].url = DictGet(DictGet(points_data, "properties", None), "forecast", None)
    /\ (pc = "done" /\ FetchValue(env[1]) = None) =>
         Len(gets) = 1 /\ result = MSG_POINTS_UNABLE
    /\ (pc = "done" /\ Len(gets) = 2 /\ FetchValue(env[2]) = None) =>
         result = MSG_FORECAST_UNABLE /\ result # MSG_POINTS_UNABLE

C5_Witness ==
  /\ pc = "done" /\ tool = "get_forecast" /\ Len(gets) = 2
  /\ gets[2].url = ForecastUrlB /\ env[2] = RespTimeout /\ result = MSG_FORECAST_UNABLE

\* one block per feature, absent fields replaced by their sentinel
ExpectedAlertBlock(feature) ==
  format_alert(Dict(<<KV("properties",
                         IF IsDict(feature) /\ IsDict(DictGet(feature, "properties", None))
                           THEN DictGet(feature, "properties", None) ELSE EmptyDict)>>)).text

\* C6: get_alerts returns the no-active-alerts message for an empty features
\* list, the unable-to-fetch message for no data or a document without
\* features, and otherwise one block per feature, in order, joined by the
\* separator.
C6_AlertsMessages ==
  (pc = "done" /\ tool = "get_alerts") =>
    LET d == FetchValue(env[1]) IN
    /\ (IsDict(d) /\ HasKey(d, "features") /\ DictGet(d, "features", None) = EmptyList)
         => result = MSG_NO_ALERTS
    /\ (d = None \/ (IsDict(d) /\ ~HasKey(d, "features")))
         => result = MSG_ALERTS_UNABLE
    /\ (IsDict(d) /\ HasKey(d, "features") /\ ListItems(DictGet(d, "features", None)) # <<>>)
         => result = Text(Join([i \in 1..Len(DictGet(d, "features", None).v) |->
                                  ExpectedAlertBlock(DictGet(d, "features", None).v[i])]))

\* C7: when the fetched document is not a list, or no area in it has a
\* non-empty weathers list, get_tokyo_weather returns the unavailable message
\* (and not an error).
C7_TokyoUnavailable ==
  (TokyoFetched /\ ~Some(DocAreas(TokyoDoc), WithWeathers)) => result = MSG_TOKYO_UNAVAILABLE

C7_Witness ==
  /\ TokyoFetched /\ IsList(TokyoDoc) /\ Len(DocAreas(TokyoDoc)) = 2
  /\ ~Some(DocAreas(TokyoDoc), WithWeathers) /\ Some(DocAreas(TokyoDoc), PreferredNamed)
  /\ result = MSG_TOKYO_UNAVAILABLE

AfterFetch == pc \in {"alerts", "fc_points", "fc_forecast"}

\* C8: when make_nws_request returns to its caller it has issued exactly one
\* GET, and it returns the parsed body of a successful response and None after
\* a transport error, a timeout, an error status or a body that does not parse.
C8_FetcherCollapsesFailures ==
  AfterFetch =>
    /\ Len(gets) = (IF pc = "fc_forecast" THEN 2 ELSE 1)
    /\ gets[Len(gets)].url = url
    /\ ret = FetchValue(env[Len(gets)])
    /\ result = NoResult

C8_Witness ==
  /\ pc = "fc_forecast" /\ env[2].kind = "http" /\ env[2].status = 404 /\ env[2].parses
  /\ ret = None /\ Len(gets) = 2

\* C9: an invocation with the arguments and external responses of an earlier
\* invocation returns what that one returned.
C9_Idempotent ==
  (pc = "done" /\ ref # <<>> /\ tool = ref[1].tool /\ args = ref[1].args /\ env = ref[1].env)
    => result = ref[1].result

C9_Witness ==
  /\ pc = "done" /\ ref # <<>> /\ tool = "get_forecast" /\ args = ref[1].args /\ env = ref[1].env
  /\ tool = ref[1].tool /\ opened = 2 /\ result.kind = "text" /\ Len(result.text) > 20

InFetch == {"nws_get", "nws_status", "nws_json", "nws_except", "nws_close",
            "tk_get", "tk_status", "tk_json", "tk_close", "tk_unwind"}

\* C10: a client is open only while its own fetch runs: none is open once the
\* fetch has handed control back, at most one is open at a time, each GET goes
\* through the client opened for it, and no two GETs share a client.
C10_ConnectionScoped ==
  /\ pc \notin InFetch => conns = {}
  /\ pc \in InFetch => conns = {client}
  /\ \A i \in 1..Len(gets) : gets[i].client = i
  /\ \A i, j \in 1..Len(gets) : i # j => gets[i].client # gets[j].client

C10_Witness ==
  /\ pc = "done" /\ tool = "get_forecast" /\ Len(gets) = 2 /\ env[2].kind = "transport_error"
  /\ conns = {}

====
